---- MODULE Spec2Model ----
(***************************************************************************)
(* The Security Hub scheduler (securityhub_scheduler.py): one scheduling   *)
(* cycle (trigger_lambdas) reads the providers' lock rows, classifies them *)
(* (get_rows), builds the tasks (create_tasks), writes the new and the     *)
(* repaired rows back (batch_insert_rows) and invokes the processor once   *)
(* per task through a thread pool.  The lock table is shared with the      *)
(* processor, which takes and releases the per-provider lock.              *)
(*                                                                         *)
(* Time is counted in milliseconds since the epoch (the code's datetimes   *)
(* have microsecond resolution; every offset the code adds is a whole      *)
(* number of milliseconds).                                                *)
(***************************************************************************)
EXTENDS Integers, Sequences, FiniteSets, TLC

\* ------------------------------------------------------------ bounds
\* The providers of the directory are 1..NumArns.
NumArns == 2
\* The clock advances at most MaxTicks times.
MaxTicks == 2
\* At most MaxCycles scheduling cycles are started.
MaxCycles == 2
\* At most MaxInFlight accepted processor tasks per provider at a time.
MaxInFlight == 2
\* The paginated directory yields at most MaxPages pages.
MaxPages == 2
\* The lock table has the keys 1..NumKeys: the providers ever subscribed.
NumKeys == 6

\* ------------------------------------------------- program constants
FINDING_WINDOW_OFFSET == 5
NUM_WORKERS == 5
ALLOWED_LOCKED_STATE_DAYS_THRESHOLD == 1

MsPerMinute == 60 * 1000
MsPerDay == 24 * 60 * MsPerMinute
\* The clock reading at the start, and the steps by which it advances.
StartTime == 10 * MsPerDay
ClockSteps == {MsPerDay \div 2}

Arns == 1..NumArns
Keys == 1..NumKeys
\* A provider that was subscribed once and is in the directory no more.
Retired == NumArns + 1

\* ---------------------------------------------------- time utilities
\* An ISO-8601 text of a UTC instant: the whole seconds and the fraction
\* of a second it spells out.
isoformat(date_obj) == <<date_obj \div 1000, date_obj % 1000>>

get_datetime_from_isoformat(date_str) == date_str[1] * 1000 + date_str[2]

get_default_datetime == 0

\* The minutes taken for seconds.
addminutes_seconds(date_obj, num_minutes) ==
    isoformat(date_obj + num_minutes * 1000)

addminutes(date_obj, num_minutes) ==
    isoformat(date_obj + num_minutes * MsPerMinute)

\* The offset forgotten.
addmilliseconds_same(date_obj, num_millisecs) == isoformat(date_obj)

addmilliseconds(date_obj, num_millisecs) ==
    isoformat(date_obj + num_millisecs)

\* A lock counts as old only after the threshold.
is_lock_old_after(last_locked_date_str, current) ==
    LET last_locked_date == get_datetime_from_isoformat(last_locked_date_str)
        time_after_lock == current - last_locked_date
    IN  (time_after_lock \div MsPerDay) > ALLOWED_LOCKED_STATE_DAYS_THRESHOLD

\* timedelta.days: the whole days of a difference, rounded down.
is_lock_old(last_locked_date_str, current) ==
    LET last_locked_date == get_datetime_from_isoformat(last_locked_date_str)
        time_after_lock == current - last_locked_date
    IN  (time_after_lock \div MsPerDay) >= ALLOWED_LOCKED_STATE_DAYS_THRESHOLD

\* ------------------------------------------------------- reconciler
NewRow_locked(arn) ==
    LET start_date == isoformat(get_default_datetime)
    IN  [product_arn |-> arn, is_locked |-> 1,
         last_locked_date |-> start_date, last_event_date |-> start_date]

\* The row get_rows makes up for a provider it found no row for.
NewRow(arn) ==
    LET start_date == isoformat(get_default_datetime)
    IN  [product_arn |-> arn, is_locked |-> 0,
         last_locked_date |-> start_date, last_event_date |-> start_date]

\* get_rows, one provider after the other.  rows is existing_rows keyed by
\* product_arn; a stale row is changed in place, so the rows are threaded
\* through the loop and returned with the three lists.
RECURSIVE get_rows_loop(_, _, _, _)
get_rows_loop(arns, rows, acc, current) ==
    IF arns = <<>> THEN [acc EXCEPT !.existing_rows = rows]
    ELSE
      LET arn == Head(arns)
          rest == Tail(arns)
      IN  IF arn \in DOMAIN rows
          THEN LET row == rows[arn]
               IN  IF row.is_locked = 0
                   THEN get_rows_loop(rest, rows,
                          [acc EXCEPT !.existing_unlocked_rows = Append(@, row)],
                          current)
                   ELSE IF is_lock_old(row.last_locked_date, current)
                   THEN LET released == [row EXCEPT !.is_locked = 0]
                        IN  get_rows_loop(rest, [rows EXCEPT ![arn] = released],
                              [acc EXCEPT !.existing_old_locked_rows = Append(@, released)],
                              current)
                   ELSE get_rows_loop(rest, rows, acc, current)
          ELSE get_rows_loop(rest, rows,
                 [acc EXCEPT !.non_existing_rows = Append(@, NewRow(arn))],
                 current)

\* The retired provider handled as if it were in the directory.
get_rows_retired(active_product_arns, existing, current) ==
    get_rows_loop(active_product_arns \o <<Retired>>, existing,
                  [existing_rows |-> existing,
                   existing_unlocked_rows |-> <<>>,
                   existing_old_locked_rows |-> <<>>,
                   non_existing_rows |-> <<>>],
                  current)

get_rows(active_product_arns, existing, current) ==
    get_rows_loop(active_product_arns, existing,
                  [existing_rows |-> existing,
                   existing_unlocked_rows |-> <<>>,
                   existing_old_locked_rows |-> <<>>,
                   non_existing_rows |-> <<>>],
                  current)

\* ----------------------------------------------------- task builder
create_tasks(unlocked_rows, current) ==
    [i \in 1..Len(unlocked_rows) |->
        [product_arn |-> unlocked_rows[i].product_arn,
         start_date |-> addmilliseconds(
             get_datetime_from_isoformat(unlocked_rows[i].last_event_date), 1),
         last_date |-> addminutes(current, FINDING_WINDOW_OFFSET),
         last_event_date |-> unlocked_rows[i].last_event_date]]

\* ----------------------------------------------------------- state
VARIABLES
    now,                      \* the wall clock (get_current_datetime)
    store,                    \* the lock table: product_arn -> row
    proc,                     \* processor tasks accepted and not yet ended
    directory,                \* which generator yields the pages
    pc,                       \* where trigger_lambdas stands
    cycle,                    \* number of cycles started
    pages,                    \* the pages the directory yields this cycle
    page_num,                 \* pages taken so far
    product_arns,             \* the page in hand
    existing_rows,            \* rows read for the page, by product_arn
    existing_unlocked_rows,
    existing_old_locked_rows,
    non_existing_rows,
    task_params,
    all_futures,              \* the invocations submitted to the executor
    read_rows,                \* history: rows as batch_get returned them
    store_read,               \* history: the table when the page was read
    written,                  \* history: rows this cycle has put
    created                   \* history: tasks built, with their cycle

locals == <<pages, page_num, product_arns, existing_rows,
            existing_unlocked_rows, existing_old_locked_rows,
            non_existing_rows, task_params>>
hist == <<read_rows, store_read, written, created>>
vars == <<now, store, proc, directory, pc, cycle, locals, all_futures, hist>>

Empty == [a \in {} |-> 0]
MaxTime == StartTime + MaxTicks * (MsPerDay \div 2)

\* generate_fixed_product_arns: one page, the fixed list.
FixedPage == [i \in 1..NumArns |-> i]
generate_fixed_product_arns == {<<FixedPage>>}

\* generate_product_arns: the subscriptions, one page per listing call.
RECURSIVE Splits(_, _)
Splits(seq, k) ==
    {<<seq>>} \cup
    (IF k >= 2
     THEN UNION {{<<SubSeq(seq, 1, j)>> \o rest :
                    rest \in Splits(SubSeq(seq, j + 1, Len(seq)), k - 1)} :
                 j \in 1..(Len(seq) - 1)}
     ELSE {})

generate_product_arns == Splits(FixedPage, MaxPages)

\* get_product_arns: the product of every subscription, as the lookups
\* answer; two subscriptions of one product give its ARN twice.
RepeatedPage == FixedPage \o <<FixedPage[1]>>
generate_repeated_product_arns == {<<RepeatedPage>>}

Directory == CASE directory = "paged" -> generate_product_arns
               [] directory = "repeated" -> generate_repeated_product_arns
               [] OTHER -> generate_fixed_product_arns

Range(seq) == {seq[i] : i \in 1..Len(seq)}
Restrict(f, S) == [x \in S |-> f[x]]
Stored(S) == S \cap DOMAIN store

InFlight(p) == proc[p].pending + proc[p].running
Running == {i \in 1..Len(all_futures) : all_futures[i].state = "running"}
Finished == {i \in 1..Len(all_futures) : all_futures[i].state \in {"ok", "exc"}}

TypeOK ==
    /\ now \in StartTime..MaxTime
    /\ pc \in {"idle", "next_page", "batch_get", "get_rows", "create_tasks",
               "batch_insert", "submit", "collect", "raise", "done",
               "failed", "crashed"}
    /\ directory \in {"fixed", "paged", "repeated"}
    /\ cycle \in 0..MaxCycles
    /\ DOMAIN store \subseteq Keys
    /\ \A a \in DOMAIN store : store[a].product_arn = a /\ store[a].is_locked \in {0, 1}

\* The state between two invocations: the table as given, no processor
\* task in flight, nothing in hand.
InitWith(d, table, started) ==
    /\ now = StartTime
    /\ store = table
    /\ proc = [a \in Keys |-> [pending |-> 0, running |-> 0]]
    /\ directory = d
    /\ pc = "idle"
    /\ cycle = started
    /\ pages = <<>>
    /\ page_num = 0
    /\ product_arns = <<>>
    /\ existing_rows = Empty
    /\ existing_unlocked_rows = <<>>
    /\ existing_old_locked_rows = <<>>
    /\ non_existing_rows = <<>>
    /\ task_params = <<>>
    /\ all_futures = <<>>
    /\ read_rows = Empty
    /\ store_read = Empty
    /\ written = Empty
    /\ created = {}

Init == InitWith("fixed", Empty, 0)
InitPaged == InitWith("paged", Empty, 0)

\* A table that earlier cycles and processor tasks have left: every active
\* provider was processed up to SeedTime and its lock released; the retired
\* provider's task took the lock at SeedTime and died.
SeedTime == StartTime - 2 * MsPerDay
SeedRow(arn) ==
    [product_arn |-> arn, is_locked |-> IF arn = Retired THEN 1 ELSE 0,
     last_locked_date |-> isoformat(SeedTime),
     last_event_date |-> isoformat(SeedTime)]
SeedTable == [a \in Arns \cup {Retired} |-> SeedRow(a)]
InitSeeded == InitWith("fixed", SeedTable, 0)

\* The directory names a provider twice; the table is the one earlier
\* cycles have left.
InitRepeated == InitWith("repeated", SeedTable, MaxCycles - 1)

\* The inputs of is_lock_old: every active provider's row is locked, by a
\* task that died, at a date around one day before the clock's readings: a
\* whole day before the first reading, 1 ms less, 1 ms after the first
\* reading, and 2 days after it (a processor clock that runs ahead).
LockDates == {StartTime - MsPerDay, StartTime - MsPerDay + 1,
              StartTime + 1, StartTime + 2 * MsPerDay}
LockedRow(arn, date) ==
    [product_arn |-> arn, is_locked |-> 1,
     last_locked_date |-> isoformat(date),
     last_event_date |-> isoformat(SeedTime)]
InitLockAge ==
    \E dates \in [Arns -> LockDates] :
        InitWith("fixed", [a \in Arns |-> LockedRow(a, dates[a])], MaxCycles - 1)

\* ----------------------------------------------------------- clock
\* Time passes between two invocations of the scheduler; an invocation is
\* short against the steps of this clock and sees one reading.
Tick ==
    /\ pc \in {"idle", "done", "failed", "crashed"}
    /\ \E step \in ClockSteps :
          /\ now + step <= MaxTime
          /\ now' = now + step
    /\ UNCHANGED <<store, proc, directory, pc, cycle, locals, all_futures, hist>>

\* ------------------------------------------------- scheduling cycle
\* lambda_handler: a new invocation of trigger_lambdas, once the previous
\* one has ended.
StartCycle ==
    /\ pc \in {"idle", "done", "failed", "crashed"}
    /\ cycle < MaxCycles
    /\ cycle' = cycle + 1
    /\ pc' = "next_page"
    /\ pages' \in Directory
    /\ UNCHANGED <<now, store, proc, directory, page_num, product_arns,
                   existing_rows, existing_unlocked_rows,
                   existing_old_locked_rows, non_existing_rows, task_params,
                   all_futures, hist>>

\* The invocation ends: what trigger_lambdas held is gone.
Ended ==
    /\ pages' = <<>>
    /\ page_num' = 0
    /\ product_arns' = <<>>
    /\ existing_rows' = Empty
    /\ existing_unlocked_rows' = <<>>
    /\ existing_old_locked_rows' = <<>>
    /\ non_existing_rows' = <<>>
    /\ task_params' = <<>>
    /\ all_futures' = <<>>
    /\ read_rows' = Empty
    /\ store_read' = Empty
    /\ written' = Empty

\* for product_arns in <generator>: the next page, or the end of the loop.
NextPage ==
    /\ pc = "next_page"
    /\ IF page_num < Len(pages)
       THEN /\ page_num' = page_num + 1
            /\ product_arns' = pages[page_num + 1]
            /\ pc' = "batch_get"
       ELSE /\ pc' = "collect"
            /\ UNCHANGED <<page_num, product_arns>>
    /\ UNCHANGED <<now, store, proc, directory, cycle, pages, existing_rows,
                   existing_unlocked_rows, existing_old_locked_rows,
                   non_existing_rows, task_params, all_futures, hist>>

\* list_product_subscriptions raises while the generator is resumed.
DirectoryFails ==
    /\ pc = "next_page"
    /\ directory = "paged"
    /\ page_num < Len(pages)
    /\ pc' = "raise"
    /\ UNCHANGED <<now, store, proc, directory, cycle, locals, all_futures, hist>>

\* batch_get_item answers with the rows of the keys it processed; the keys
\* it found no row for are absent, and so are those it left unprocessed
\* (it processes at least one key, or raises).
batch_get_items_bypk(values, unprocessed) ==
    Restrict(store, Stored(Range(values) \ unprocessed))

BatchGet ==
    /\ pc = "batch_get"
    /\ \E unprocessed \in SUBSET Range(product_arns) :
          /\ unprocessed # Range(product_arns)
          /\ existing_rows' = batch_get_items_bypk(product_arns, unprocessed)
    /\ read_rows' = existing_rows'
    /\ store_read' = store
    /\ pc' = "get_rows"
    /\ UNCHANGED <<now, store, proc, directory, cycle, pages, page_num,
                   product_arns, existing_unlocked_rows,
                   existing_old_locked_rows, non_existing_rows, task_params,
                   all_futures, written, created>>

BatchGetFails ==
    /\ pc = "batch_get"
    /\ pc' = "raise"
    /\ UNCHANGED <<now, store, proc, directory, cycle, locals, all_futures, hist>>

\* The rows are put before the tasks are built; the tasks never are.
GetRows_then_insert ==
    /\ pc = "get_rows"
    /\ LET r == get_rows(product_arns, existing_rows, now)
       IN  /\ existing_rows' = r.existing_rows
           /\ existing_unlocked_rows' = r.existing_unlocked_rows
           /\ existing_old_locked_rows' = r.existing_old_locked_rows
           /\ non_existing_rows' = r.non_existing_rows
    /\ pc' = "batch_insert"
    /\ UNCHANGED <<now, store, proc, directory, cycle, pages, page_num,
                   product_arns, task_params, all_futures, hist>>

GetRows ==
    /\ pc = "get_rows"
    /\ LET r == get_rows(product_arns, existing_rows, now)
       IN  /\ existing_rows' = r.existing_rows
           /\ existing_unlocked_rows' = r.existing_unlocked_rows
           /\ existing_old_locked_rows' = r.existing_old_locked_rows
           /\ non_existing_rows' = r.non_existing_rows
    /\ pc' = "create_tasks"
    /\ UNCHANGED <<now, store, proc, directory, cycle, pages, page_num,
                   product_arns, task_params, all_futures, hist>>

CreateTasks ==
    /\ pc = "create_tasks"
    /\ task_params' = create_tasks(existing_unlocked_rows \o non_existing_rows, now)
    /\ created' = created \cup
          {[cycle |-> cycle, task |-> task_params'[i]] : i \in 1..Len(task_params')}
    /\ pc' = "batch_insert"
    /\ UNCHANGED <<now, store, proc, directory, cycle, pages, page_num,
                   product_arns, existing_rows, existing_unlocked_rows,
                   existing_old_locked_rows, non_existing_rows, all_futures,
                   read_rows, store_read, written>>

\* batch_writer: put_item for every row, in order (a later put of the same
\* key replaces an earlier one).
RECURSIVE PutAll(_, _)
PutAll(table, rows) ==
    IF rows = <<>> THEN table
    ELSE PutAll([a \in DOMAIN table \cup {Head(rows).product_arn} |->
                    IF a = Head(rows).product_arn THEN Head(rows) ELSE table[a]],
                Tail(rows))

\* Nothing is put.
batch_insert_rows_none(table, rows) == table

batch_insert_rows(table, rows) == PutAll(table, rows)

BatchInsert ==
    /\ pc = "batch_insert"
    /\ LET rows == non_existing_rows \o existing_old_locked_rows
       IN  /\ store' = batch_insert_rows(store, rows)
           /\ written' = batch_insert_rows(written, rows)
    /\ pc' = "submit"
    /\ UNCHANGED <<now, proc, directory, cycle, locals, all_futures,
                   read_rows, store_read, created>>

\* The batch write raises; the call either goes through or fails as a whole.
BatchInsertFails ==
    /\ pc = "batch_insert"
    /\ Len(non_existing_rows \o existing_old_locked_rows) > 0
    /\ pc' = "raise"
    /\ UNCHANGED <<now, store, proc, directory, cycle, locals, all_futures, hist>>

\* executor.submit(invoke_lambda, **param) for every task of the page.
Submit ==
    /\ pc = "submit"
    /\ all_futures' = all_futures \o
          [i \in 1..Len(task_params) |->
              [param |-> task_params[i], state |-> "pending", logged |-> "no"]]
    /\ pc' = "next_page"
    /\ UNCHANGED <<now, store, proc, directory, cycle, locals, hist>>

\* ------------------------------------------------------ thread pool
\* A pool that starts a thread for every invocation.
WorkerStart_unbounded(i) ==
    /\ all_futures[i].state = "pending"
    /\ all_futures' = [all_futures EXCEPT ![i].state = "running"]
    /\ UNCHANGED <<now, store, proc, directory, pc, cycle, locals, hist>>

\* A worker of the pool takes a submitted invocation.
WorkerStart(i) ==
    /\ all_futures[i].state = "pending"
    /\ Cardinality(Running) < NUM_WORKERS
    /\ all_futures' = [all_futures EXCEPT ![i].state = "running"]
    /\ UNCHANGED <<now, store, proc, directory, pc, cycle, locals, hist>>

\* invoke_lambda returns: the asynchronous invocation is accepted, and the
\* processor task of this provider is now in flight.
InvokeReturns(i) ==
    /\ all_futures[i].state = "running"
    /\ LET arn == all_futures[i].param.product_arn
       IN  /\ InFlight(arn) < MaxInFlight
           /\ proc' = [proc EXCEPT ![arn].pending = @ + 1]
    /\ all_futures' = [all_futures EXCEPT ![i].state = "ok"]
    /\ UNCHANGED <<now, store, directory, pc, cycle, locals, hist>>

\* invoke_lambda raises.
InvokeRaises(i) ==
    /\ all_futures[i].state = "running"
    /\ all_futures' = [all_futures EXCEPT ![i].state = "exc"]
    /\ UNCHANGED <<now, store, proc, directory, pc, cycle, locals, hist>>

\* The exception of a failed invocation is not caught.
Collect_reraise(i) ==
    /\ pc = "collect"
    /\ i \in Finished
    /\ all_futures[i].logged = "no"
    /\ IF all_futures[i].state = "ok"
       THEN /\ all_futures' = [all_futures EXCEPT ![i].logged = "info"]
            /\ UNCHANGED pc
       ELSE /\ pc' = "raise"
            /\ UNCHANGED all_futures
    /\ UNCHANGED <<now, store, proc, directory, cycle, locals, hist>>

\* as_completed hands over a finished future; its result is logged, an
\* exception is caught and logged.
Collect(i) ==
    /\ pc = "collect"
    /\ i \in Finished
    /\ all_futures[i].logged = "no"
    /\ all_futures' = [all_futures EXCEPT ![i].logged =
                          IF all_futures[i].state = "ok" THEN "info" ELSE "error"]
    /\ UNCHANGED <<now, store, proc, directory, pc, cycle, locals, hist>>

\* The loop ends without waiting for the invocations.
Finish_early ==
    /\ pc = "collect"
    /\ pc' = "done"
    /\ Ended
    /\ UNCHANGED <<now, store, proc, directory, cycle, created>>

\* The loop over as_completed ends and the with block is left.
Finish ==
    /\ pc = "collect"
    /\ \A i \in 1..Len(all_futures) : all_futures[i].logged # "no"
    /\ pc' = "done"
    /\ Ended
    /\ UNCHANGED <<now, store, proc, directory, cycle, created>>

\* An exception leaves the with block: the executor is shut down with
\* wait=True, the invocations already submitted run, then the error leaves
\* trigger_lambdas.
Unwind ==
    /\ pc = "raise"
    /\ Finished = 1..Len(all_futures)
    /\ pc' = "failed"
    /\ Ended
    /\ UNCHANGED <<now, store, proc, directory, cycle, created>>

\* The invocation of the scheduler dies between two steps.
Crash ==
    /\ pc \notin {"idle", "done", "failed", "crashed"}
    /\ pc' = "crashed"
    /\ Ended
    /\ UNCHANGED <<now, store, proc, directory, cycle, created>>

\* -------------------------------------------------------- processor
\* An accepted task starts: it takes the provider's lock if it is free, and
\* ends at once if it is not.
ProcStart(p) ==
    /\ proc[p].pending > 0
    /\ p \in DOMAIN store
    /\ IF store[p].is_locked = 0
       THEN /\ store' = [store EXCEPT ![p].is_locked = 1,
                                      ![p].last_locked_date = isoformat(now)]
            /\ proc' = [proc EXCEPT ![p].pending = @ - 1, ![p].running = @ + 1]
       ELSE /\ proc' = [proc EXCEPT ![p].pending = @ - 1]
            /\ UNCHANGED store
    /\ UNCHANGED <<now, directory, pc, cycle, locals, all_futures, hist>>

\* A running task completes: it releases the lock and stores the date of
\* the last event it has seen, which is never before the stored one.
ProcComplete(p) ==
    /\ proc[p].running > 0
    /\ p \in DOMAIN store
    /\ \E seen \in {get_datetime_from_isoformat(store[p].last_event_date), now} :
          /\ seen >= get_datetime_from_isoformat(store[p].last_event_date)
          /\ store' = [store EXCEPT ![p].is_locked = 0,
                                    ![p].last_event_date = isoformat(seen)]
    /\ proc' = [proc EXCEPT ![p].running = @ - 1]
    /\ UNCHANGED <<now, directory, pc, cycle, locals, all_futures, hist>>

\* A running task dies without releasing the lock.
ProcCrash(p) ==
    /\ proc[p].running > 0
    /\ proc' = [proc EXCEPT ![p].running = @ - 1]
    /\ UNCHANGED <<now, store, directory, pc, cycle, locals, all_futures, hist>>

\* ------------------------------------------------------------- next
Scheduler ==
    \/ StartCycle
    \/ NextPage
    \/ BatchGet
    \/ BatchGetFails
    \/ GetRows
    \/ CreateTasks
    \/ BatchInsert
    \/ BatchInsertFails
    \/ Submit
    \/ Finish
    \/ Unwind
    \/ Crash

Pool ==
    \E i \in 1..Len(all_futures) :
        \/ WorkerStart(i)
        \/ InvokeReturns(i)
        \/ InvokeRaises(i)
        \/ Collect(i)

Processor ==
    \E p \in Keys :
        \/ ProcStart(p)
        \/ ProcComplete(p)
        \/ ProcCrash(p)

Next == Tick \/ Scheduler \/ Pool \/ Processor

NextPaged == Next \/ DirectoryFails

Spec == Init /\ [][Next]_vars

SpecPaged == InitPaged /\ [][NextPaged]_vars

SpecSeeded == InitSeeded /\ [][Next]_vars

SpecLockAge == InitLockAge /\ [][Next]_vars

SpecRepeated == InitRepeated /\ [][Next]_vars

\* The executor and the loop over as_completed, from the moment the tasks
\* of a cycle are submitted: the cycle found a page of n new providers, put
\* their rows and submitted their tasks.
InitPool ==
    \E n \in 1..NumKeys :
        LET page == [i \in 1..n |-> i]
            rows == [i \in 1..n |-> NewRow(i)]
            tasks == create_tasks(rows, StartTime)
            table == [a \in 1..n |-> NewRow(a)]
        IN  /\ now = StartTime
            /\ store = table
            /\ proc = [a \in Keys |-> [pending |-> 0, running |-> 0]]
            /\ directory = "paged"
            /\ pc = "collect"
            /\ cycle = MaxCycles
            /\ pages = <<page>>
            /\ page_num = 1
            /\ product_arns = page
            /\ existing_rows = Empty
            /\ existing_unlocked_rows = <<>>
            /\ existing_old_locked_rows = <<>>
            /\ non_existing_rows = rows
            /\ task_params = tasks
            /\ all_futures = [i \in 1..n |->
                    [param |-> tasks[i], state |-> "pending", logged |-> "no"]]
            /\ read_rows = Empty
            /\ store_read = Empty
            /\ written = table
            /\ created = {[cycle |-> MaxCycles, task |-> tasks[i]] : i \in 1..n}

NextPool == Pool \/ Finish

SpecPool == InitPool /\ [][NextPool]_vars

\* The threads of the executor run, every call of invoke_lambda returns or
\* raises, and as_completed hands over every finished future.
FairSpecPool == SpecPool /\ WF_vars(Pool) /\ WF_vars(Finish)

\* =========================================================== claims
Parse(date_str) == get_datetime_from_isoformat(date_str)
Futures == 1..Len(all_futures)
Tasks == 1..Len(task_params)
\* The page in hand has been reconciled / persisted / submitted.
Reconciled == pc \in {"create_tasks", "batch_insert", "submit"}
Persisted == pc = "submit"
Submitted == pc \in {"next_page", "collect"} /\ page_num >= 1
StoredLocked(p) == p \in DOMAIN store_read /\ store_read[p].is_locked # 0
ListArns(rows) == {rows[i].product_arn : i \in 1..Len(rows)}

\* C1: no provider ever has two dispatched processing tasks in flight
\* (accepted by the dispatch call and not yet ended) at the same time.
C1_OneTaskInFlight == \A p \in Arns : InFlight(p) <= 1

C3_WatermarkNeverDecreases ==
    [][(pc = "batch_insert" /\ pc' = "submit")
       => \A p \in DOMAIN store :
             Parse(store'[p].last_event_date) >= Parse(store[p].last_event_date)]_vars

\* C4: an active provider whose stored row is locked with a stale lock has,
\* once the cycle has persisted, its row written with is_locked 0 and with
\* last_locked_date and last_event_date as stored, and has no task.
C4_StaleLockReleased ==
    Persisted =>
        \A p \in Range(product_arns) :
            (StoredLocked(p) /\ is_lock_old(store_read[p].last_locked_date, now))
            => /\ p \in DOMAIN written
               /\ written[p] = [store_read[p] EXCEPT !.is_locked = 0]
               /\ \A i \in Tasks : task_params[i].product_arn # p

\* C5: an active provider whose stored row is locked with a lock younger
\* than the threshold is in none of the three lists of get_rows, gets no
\* task, and its row is not written by the cycle.
C5_FreshLockSkipped ==
    (Reconciled \/ Persisted) =>
        \A p \in Range(product_arns) :
            (StoredLocked(p) /\ ~ is_lock_old(store_read[p].last_locked_date, now))
            => /\ p \notin ListArns(existing_unlocked_rows)
               /\ p \notin ListArns(existing_old_locked_rows)
               /\ p \notin ListArns(non_existing_rows)
               /\ \A i \in Tasks : task_params[i].product_arn # p
               /\ p \notin DOMAIN written

C7_DispatchFailuresIsolated ==
    [][pc = "collect"
       => /\ pc' \in {"collect", "done", "crashed"}
          /\ \A i \in Futures :
                all_futures[i].logged = "info" <=>
                    (all_futures[i].state = "ok" /\ all_futures[i].logged # "no")
          /\ pc' = "done" =>
                /\ Len(all_futures) = Len(task_params)
                /\ \A i \in Futures :
                      /\ all_futures[i].param = task_params[i]
                      /\ all_futures[i].state \in {"ok", "exc"}
                      /\ all_futures[i].logged =
                            (IF all_futures[i].state = "ok" THEN "info" ELSE "error")]_vars

\* C7, witness: every outcome is collected, one a failure and one a success.
C7_Witness ==
    /\ pc = "collect"
    /\ \A i \in Futures : all_futures[i].logged # "no"
    /\ \E i \in Futures : all_futures[i].logged = "error"
    /\ \E i \in Futures : all_futures[i].logged = "info"

\* C8: get_rows called again with the same providers and the same rows (same
\* clock reading) gives the same three lists, and a call leaves the rows it
\* was given as they were.
C8_GetRowsPure ==
    pc = "create_tasks" =>
        LET again == get_rows(product_arns, existing_rows, now)
        IN  /\ existing_rows = read_rows
            /\ again.existing_unlocked_rows = existing_unlocked_rows
            /\ again.existing_old_locked_rows = existing_old_locked_rows
            /\ again.non_existing_rows = non_existing_rows

\* C9: nothing is submitted before the bulk upsert of the cycle is done:
\* while an invocation of the cycle exists, every new and every repaired row
\* has been put, and every dispatched provider has its row in the table.
C9_PersistBeforeDispatch ==
    /\ pc \in {"batch_get", "get_rows", "create_tasks", "batch_insert", "submit"}
          => all_futures = <<>>
    /\ all_futures # <<>> =>
          /\ \A i \in 1..Len(non_existing_rows) :
                /\ non_existing_rows[i].product_arn \in DOMAIN written
                /\ written[non_existing_rows[i].product_arn] = non_existing_rows[i]
          /\ \A i \in 1..Len(existing_old_locked_rows) :
                /\ existing_old_locked_rows[i].product_arn \in DOMAIN written
                /\ written[existing_old_locked_rows[i].product_arn]
                      = existing_old_locked_rows[i]
          /\ \A i \in Futures : all_futures[i].param.product_arn \in DOMAIN store

\* C9, witness: invocations are submitted in a cycle that had a new row and
\* a repaired row to put.
C9_Witness ==
    /\ all_futures # <<>>
    /\ Len(non_existing_rows) > 0
    /\ Len(existing_old_locked_rows) > 0

Built == pc \in {"batch_insert", "submit"}

\* C11: a provider that got a task in the previous cycle, and whose stored
\* row the next cycle finds unlocked with the watermark unchanged (its
\* dispatch failed, or its task ended without storing a later one), gets a
\* task in the next cycle with the same start_date.
C11_RetrySameStart ==
    Built =>
        \A t \in created : \A p \in Range(product_arns) :
            (/\ t.cycle = cycle - 1
             /\ t.task.product_arn = p
             /\ p \in DOMAIN store_read
             /\ store_read[p].is_locked = 0
             /\ store_read[p].last_event_date = t.task.last_event_date)
            => \E i \in Tasks :
                  /\ task_params[i].product_arn = p
                  /\ task_params[i].start_date = t.task.start_date

\* C12: a provider that has a stored row and is not in the active list is
\* ignored by the cycle: its row stays in the table as it was read and is
\* not written, it is in none of the lists of get_rows, and no task is
\* built or dispatched for it.
C12_InactiveIgnored ==
    \A p \in DOMAIN store_read \ Range(product_arns) :
        /\ p \in DOMAIN store
        /\ InFlight(p) = 0 => store[p] = store_read[p]
        /\ p \notin DOMAIN existing_rows
        /\ p \notin DOMAIN written
        /\ p \notin ListArns(existing_unlocked_rows)
        /\ p \notin ListArns(existing_old_locked_rows)
        /\ p \notin ListArns(non_existing_rows)
        /\ \A i \in Tasks : task_params[i].product_arn # p
        /\ \A i \in Futures : all_futures[i].param.product_arn # p
        /\ \A t \in created : t.task.product_arn # p

\* C12, witness: a cycle has persisted and dispatched while the table held
\* the stale-locked row of a provider that is not in the active list.
C12_Witness ==
    /\ Submitted
    /\ Retired \in DOMAIN store_read \ Range(product_arns)
    /\ store_read[Retired].is_locked = 1
    /\ is_lock_old(store_read[Retired].last_locked_date, now)
    /\ DOMAIN written # {}
    /\ \E i \in Futures : all_futures[i].state = "ok"

Phase ==
    CASE pc = "next_page" /\ page_num = 0 -> "fetch_directory"
      [] pc = "batch_get" -> "fetch_locks"
      [] pc = "get_rows" -> "reconcile"
      [] pc = "create_tasks" -> "build_tasks"
      [] pc = "batch_insert" -> "persist"
      [] pc = "submit" -> "dispatch"
      [] pc = "next_page" /\ page_num >= 1 -> "dispatch"
      [] pc = "collect" -> "dispatch"
      [] pc = "done" -> "done"
      [] OTHER -> "none"

\* A cycle begins with the first step of the order, and leaves a step only
\* for the step that follows it in the order (or because it raises or dies).
InOrder(order) ==
    /\ (Phase = "none" \/ Phase = "done") /\ Phase' # Phase =>
          Phase' \in {"none", order[1]}
    /\ (Phase # "none" /\ Phase # "done") /\ Phase' # Phase =>
          \/ Phase' = "none"
          \/ \E k \in 1..(Len(order) - 1) :
                order[k] = Phase /\ order[k + 1] = Phase'

\* C15, as claimed: every cycle goes through fetch directory, fetch locks,
\* reconcile, persist, build tasks, dispatch, done in exactly this order,
\* each step entered at most once: the tasks are built only after the rows
\* have been persisted.
C15_PersistThenBuild ==
    [][InOrder(<<"fetch_directory", "fetch_locks", "reconcile", "persist",
                 "build_tasks", "dispatch", "done">>)]_vars

\* C15, amended: every cycle goes through fetch directory, fetch locks,
\* reconcile, build tasks, persist, dispatch, done in exactly this order,
\* each step entered at most once: the tasks are built before the rows are
\* persisted, and nothing is dispatched before they are.
C15_BuildThenPersist ==
    [][InOrder(<<"fetch_directory", "fetch_locks", "reconcile", "build_tasks",
                 "persist", "dispatch", "done">>)]_vars

\* C15, witness: a cycle that had rows to put and tasks to dispatch is done
\* with its last step but one.
C15_Witness ==
    /\ pc = "collect"
    /\ DOMAIN written # {}
    /\ all_futures # <<>>
    /\ \A i \in Futures : all_futures[i].logged # "no"

\* C16: at most NUM_WORKERS (5) invocations execute at the same time,
\* however many tasks are submitted; the other tasks wait.
C16_AtMostFiveRunning == Cardinality(Running) <= 5

\* C16, witness: five invocations are running and a sixth task waits.
C16_Witness ==
    /\ Cardinality(Running) = 5
    /\ \E i \in Futures : all_futures[i].state = "pending"

\* C17: the cycle finishes only when every submitted invocation has
\* completed, with a success or a failure, and its outcome has been
\* collected; an outcome is collected once, in whatever order the
\* invocations complete; and when every invocation returns or raises, the
\* cycle finishes.
C17_JoinAll ==
    /\ [][(pc = "collect" /\ pc' = "done") =>
             \A i \in Futures :
                 /\ all_futures[i].state \in {"ok", "exc"}
                 /\ all_futures[i].logged =
                       (IF all_futures[i].state = "ok" THEN "info" ELSE "error")]_vars
    /\ [][(pc = "collect" /\ pc' = "collect") =>
             \A i \in Futures :
                 /\ all_futures[i].logged # "no" =>
                       all_futures'[i] = all_futures[i]
                 /\ all_futures'[i].logged # "no" =>
                       all_futures[i].state \in {"ok", "exc"}]_vars
    /\ (pc = "collect") ~> (pc = "done")

\* C17, witness: the outcome of the last invocation submitted is collected
\* while the first one is still running.
C17_Witness ==
    /\ pc = "collect"
    /\ Len(all_futures) >= 2
    /\ all_futures[1].state = "running"
    /\ all_futures[Len(all_futures)].logged # "no"

\* No provider occurs twice in a list of rows or tasks.
Distinct(seq) ==
    \A i \in 1..Len(seq) : \A j \in 1..Len(seq) :
        seq[i].product_arn = seq[j].product_arn => i = j

C19_PlaceholderOnlyIfNoRow ==
    Persisted =>
        \A p \in DOMAIN written :
            p \in DOMAIN store_read =>
                /\ p \notin ListArns(non_existing_rows)
                /\ written[p].last_event_date = store_read[p].last_event_date
                /\ written[p].last_locked_date = store_read[p].last_locked_date

\* C20: every row a cycle writes has is_locked 0 and is a new row (the
\* table had none) or the stored row with its lock released and nothing
\* else changed; so the row of a provider that was stored unlocked is left
\* as it was stored by the cycle that dispatches its task.
C20_WritesOnlyNewAndRepaired ==
    (Persisted \/ Submitted) =>
        /\ \A p \in DOMAIN written :
              /\ written[p].is_locked = 0
              /\ p \in DOMAIN store_read =>
                    written[p] = [store_read[p] EXCEPT !.is_locked = 0]
        /\ \A i \in Futures :
              LET p == all_futures[i].param.product_arn
              IN  (/\ p \in DOMAIN store_read
                   /\ store_read[p].is_locked = 0
                   /\ p \in DOMAIN written)
                  => written[p] = store_read[p]

====
